---- MODULE Spec2Model ----
(***************************************************************************)
(* A model of the Gemini API queue library: the context store              *)
(* (gemini_manager/persistence.py), the three context strategies           *)
(* (gemini_manager/context.py) and the manager with its key rotator        *)
(* (gemini_manager/core.py).                                               *)
(*                                                                         *)
(* A Python string is a sequence of fragments: "" is << >>, an f-string is *)
(* the concatenation of its literal fragments and its arguments.           *)
(***************************************************************************)
EXTENDS Integers, Sequences, FiniteSets, TLC

\* ------------------------------------------------------------------ bounds

\* The largest credential pool GEMINI_API_KEYS holds.
MaxKeys == 2
\* The largest summary_threshold a RollingSummaryStrategy is built with.
MaxThreshold == 3
\* The largest top_k a RetrievalAugmentedStrategy is built with.
MaxTopK == 2
\* Turns are committed to a context while it and the store hold fewer than this.
MaxTurns == 2

\* --------------------------------------------------------------- constants

\* score_threshold=0.6 of the search, in tenths.
ScoreThresholdTenths == 6

\* ------------------------------------------------------------------ inputs

\* The context ids the callers of a run use.
IdSets == {{"c1"}}
Prompts == {<< >>, <<"p">>, <<"p", "q">>}
Responses == {<<"r">>}
\* The texts a summarization call can return.
SummaryTexts == {<< >>, <<"s">>}

VARIABLES
    api_keys,      \* GeminiManager.api_keys, the deque of credentials
    strategy,      \* GeminiManager.context_strategy and its parameters
    files,         \* contexts/<id>.json for every context id
    collections,   \* the collections of the in-memory Qdrant client
    committed,     \* for every context id, the turns committed since it was created
    last,          \* the last call that completed: arguments, outcome, state before
    keyWin,        \* the last len(api_keys) calls of _get_next_key
    sumLog,        \* for every context id, the turns to commit before a summarization call
    pc,            \* where the stepwise call, or the chat loop, of the running process is
    frame          \* the locals of that call or loop

vars == <<api_keys, strategy, files, collections, committed, last, keyWin, sumLog,
          pc, frame>>

\* ------------------------------------------------------------- sequences

RECURSIVE Join(_, _)
\* sep.join(parts) for a sequence of strings
Join(parts, sep) ==
    IF parts = << >> THEN << >>
    ELSE IF Len(parts) = 1 THEN parts[1]
    ELSE parts[1] \o sep \o Join(Tail(parts), sep)

\* sub in text, for two strings
Contains(text, sub) ==
    \E i \in 0..(Len(text) - Len(sub)) :
        \A j \in 1..Len(sub) : text[i + j] = sub[j]

\* the number of fragments of text equal to a
Count(text, a) == Cardinality({i \in 1..Len(text) : text[i] = a})

RECURSIVE SumOver(_, _)
SumOver(S, f) ==
    IF S = {} THEN 0
    ELSE LET x == CHOOSE y \in S : TRUE IN f[x] + SumOver(S \ {x}, f)

\* ------------------------------------------------------- the context store

Absent == [state |-> "absent"]
Truncated == [state |-> "truncated"]

\* json.dump(data, f, indent=2) run to its end: the document that holds data
JsonDump(data) == [state |-> "complete", data |-> data]

\* json.load(f): the data of a complete document; a cut one does not parse
JsonLoad(doc) ==
    IF doc.state = "complete" THEN [raised |-> "", data |-> doc.data]
    ELSE [raised |-> "JSONDecodeError", data |-> << >>]

\* a Python list, and a Python dict with the given keys
ListData(items) == [type |-> "list", items |-> items]
DictData(fields) == [type |-> "dict", fields |-> fields]

context_exists(fs, id) == fs[id].state # "absent"

\* open(path, 'w') then json.dump
save_context(fs, id, data) == [fs EXCEPT ![id] = JsonDump(data)]

load_context(fs, id) ==
    IF ~context_exists(fs, id) THEN [raised |-> "FileNotFoundError", data |-> << >>]
    ELSE JsonLoad(fs[id])

\* A create that skips the existence check.
CreateOverwrites(fs, id, initial_data) ==
    [raised |-> "", files |-> save_context(fs, id, initial_data)]

create_new_context(fs, id, initial_data) ==
    IF context_exists(fs, id) THEN [raised |-> "FileExistsError", files |-> fs]
    ELSE [raised |-> "", files |-> save_context(fs, id, initial_data)]

\* A delete that empties the directory.
DeleteClears(fs, id) == [i \in DOMAIN fs |-> Absent]

delete_context(fs, id) ==
    IF context_exists(fs, id) THEN [fs EXCEPT ![id] = Absent] ELSE fs

list_contexts(fs) == {id \in DOMAIN fs : context_exists(fs, id)}

\* ------------------------------------------------------------ key rotator

\* A rotate that leaves the deque as it is.
RotateNone(keys) == keys

\* _get_next_key: the front key, and the deque rotated left by one
RotateLeft(keys) == Tail(keys) \o <<Head(keys)>>

_get_next_key(keys) == [key |-> Head(keys), api_keys |-> RotateLeft(keys)]

\* the window of the last Len(keys) calls, with this call added
PushWin(win, keys, call) ==
    LET w == Append(win, call)
    IN IF Len(w) > Len(keys) THEN Tail(w) ELSE w

\* ------------------------------------------------------------ turn records

UserTurn(text) == [role |-> <<"user">>, text |-> text]
ModelTurn(text) == [role |-> <<"model">>, text |-> text]

\* ------------------------------------------------------- context strategies

SimpleContextStrategy == [kind |-> "simple", summary_threshold |-> 0, top_k |-> 0]
RollingSummaryStrategy(threshold) ==
    [kind |-> "rolling", summary_threshold |-> threshold, top_k |-> 0]
RetrievalAugmentedStrategy(k) == [kind |-> "rag", summary_threshold |-> 0, top_k |-> k]

Strategies ==
    {SimpleContextStrategy}
        \cup {RollingSummaryStrategy(t) : t \in 0..MaxThreshold}
        \cup {RetrievalAugmentedStrategy(k) : k \in 1..MaxTopK}

\* get_initial_state of each strategy; uuid is the value uuid4() gives
get_initial_state(st, uuid) ==
    CASE st.kind = "simple" -> ListData(<< >>)
      [] st.kind = "rolling" -> DictData([summary |-> << >>, history |-> << >>])
      [] OTHER -> DictData([strategy |-> <<"rag">>, collection_name |-> uuid])

\* whether data[key] can be read: a dict that holds the key
HasKey(data, key) == data.type = "dict" /\ key \in DOMAIN data.fields

\* what data[key] raises when it cannot be read
KeyFault(data) == IF data.type = "list" THEN "TypeError" ELSE "KeyError"

\* "\n".join(f"{role}: {text}" for each record of history)
HistoryText(history) ==
    Join([i \in 1..Len(history) |-> history[i].role \o <<": ">> \o history[i].text],
         <<"\n">>)

\* A text for the summarization that leaves the history out.
FullTextNoHistory(summary, history) == summary

\* f"{summary}\n{history_text}"
FullText(summary, history) == summary \o <<"\n">> \o HistoryText(history)

\* the text of the summarization request
SummarizePrompt(text) == <<"Concisely summarize this conversation:\n\n">> \o text

SummaryTurn(summary) ==
    UserTurn(<<"This is a summary of our conversation so far: ">> \o summary)
AckTurn == ModelTurn(<<"Understood. Let's continue.">>)

\* A reply of client.generate_content: it raised, or it gave a text.
NoReply == [ok |-> FALSE, text |-> << >>]
Replies == {NoReply} \cup {[ok |-> TRUE, text |-> s] : s \in SummaryTexts}

\* A payload head that states the summary also when there is none.
RollingHistoryAlways(fields) ==
    <<SummaryTurn(fields.summary), AckTurn>> \o fields.history

\* A threshold test that lets a history of just summary_threshold records pass.
OverThresholdStrict(st, history) == Len(history) > st.summary_threshold

\* The history a strategy hands back once the summarization is past.
RollingHistory(fields) ==
    (IF fields.summary # << >> THEN <<SummaryTurn(fields.summary), AckTurn>> ELSE << >>)
        \o fields.history

\* A threshold test that fires one turn early.
OverThresholdEarly(st, history) == Len(history) + 2 >= st.summary_threshold

\* context.py line 34: len(context_data['history']) >= self.summary_threshold
OverThreshold(st, history) == Len(history) >= st.summary_threshold

\* whether RollingSummaryStrategy.prepare_history summarizes this data
NeedsSummary(st, data) ==
    /\ st.kind = "rolling"
    /\ HasKey(data, "history")
    /\ OverThreshold(st, data.fields.history)

\* A _summarize that catches what the call raised and gives "".
SummarizeSwallows(reply) == [raised |-> "", text |-> reply.text]

\* _summarize: the text of the reply, or what the call raised
_summarize(reply) ==
    [raised |-> IF reply.ok THEN "" ELSE "UpstreamFailure", text |-> reply.text]

\* A summarization that leaves the history in place.
SummarizedKeepsHistory(fields, new_summary) == [fields EXCEPT !.summary = new_summary]

\* context.py lines 38-39: the new summary is set and the history cleared
Summarized(fields, new_summary) ==
    [fields EXCEPT !.summary = new_summary, !.history = << >>]

\* RollingSummaryStrategy.prepare_history; reply is what _summarize's call gives
RollingPrepareHistory(st, data, reply) ==
    LET none == [raised |-> "", data |-> data, history |-> << >>,
                 sumCalls |-> 0, sumInput |-> << >>, sumOutput |-> << >>]
    IN  IF ~HasKey(data, "history") THEN [none EXCEPT !.raised = KeyFault(data)]
        ELSE IF OverThreshold(st, data.fields.history) THEN
            LET full_text ==
                    FullText(IF "summary" \in DOMAIN data.fields
                             THEN data.fields.summary ELSE << >>,
                             data.fields.history)
                asked == [none EXCEPT !.sumCalls = 1,
                                      !.sumInput = SummarizePrompt(full_text)]
                summary == _summarize(reply)
            IN  IF summary.raised # "" THEN [asked EXCEPT !.raised = summary.raised]
                ELSE LET new == DictData(Summarized(data.fields, summary.text))
                     IN [asked EXCEPT !.data = new,
                                      !.history = RollingHistory(new.fields),
                                      !.sumOutput = summary.text]
        ELSE IF "summary" \notin DOMAIN data.fields THEN [none EXCEPT !.raised = "KeyError"]
        ELSE [none EXCEPT !.history = RollingHistory(data.fields)]

\* A prepare_history of the simple strategy that takes the records out of the
\* data it hands back.
PrepareHistoryConsumes(st, data, reply) ==
    IF st.kind = "rolling" THEN RollingPrepareHistory(st, data, reply)
    ELSE IF data.type = "list"
         THEN [raised |-> "", data |-> ListData(<< >>), history |-> data.items,
               sumCalls |-> 0, sumInput |-> << >>, sumOutput |-> << >>]
         ELSE [raised |-> "TypeError", data |-> data, history |-> << >>,
               sumCalls |-> 0, sumInput |-> << >>, sumOutput |-> << >>]

\* prepare_history of the simple and the rolling strategy (the retrieval
\* strategy's is never reached from prepare_contents)
prepare_history(st, data, reply) ==
    IF st.kind = "rolling" THEN RollingPrepareHistory(st, data, reply)
    ELSE IF data.type = "list"
         THEN [raised |-> "", data |-> data, history |-> data.items,
               sumCalls |-> 0, sumInput |-> << >>, sumOutput |-> << >>]
         ELSE [raised |-> "TypeError", data |-> data, history |-> << >>,
               sumCalls |-> 0, sumInput |-> << >>, sumOutput |-> << >>]

\* ------------------------------------------------------ retrieval: search

\* f"User asked: {prompt}\nAI responded: {response}"
InteractionText(prompt, response) ==
    <<"User asked: ">> \o prompt \o <<"\nAI responded: ">> \o response

\* embedding_model.encode(text): a fixed-length vector, the same for the same
\* text (a bag of the content fragments, with a constant last component)
Embed(text) == <<Count(text, "p"), Count(text, "q"), Count(text, "r"), 1>>

Dot(a, b) == a[1] * b[1] + a[2] * b[2] + a[3] * b[3] + a[4] * b[4]

\* cosine(a, b) >= tenths / 10, for vectors of non-negative components
CosineAtLeast(a, b, tenths) ==
    100 * Dot(a, b) * Dot(a, b) >= tenths * tenths * Dot(a, a) * Dot(b, b)

\* cosine(q, a) > cosine(q, b)
CloserThan(q, a, b) ==
    Dot(q, a) * Dot(q, a) * Dot(b, b) > Dot(q, b) * Dot(q, b) * Dot(a, a)

\* A search with no score_threshold.
PassesAlways(query, point) == TRUE

\* whether the search keeps a point: score_threshold=0.6
PassesThreshold(query, point) ==
    CosineAtLeast(Embed(query), Embed(point.text), ScoreThresholdTenths)

\* limit=top_k: the number of hits of a search that n points pass
Limit(n, limit) == IF n < limit THEN n ELSE limit

\* qdrant_client.search(collection, query_vector, limit, score_threshold): every
\* list it can return, ranked by descending score, equal scores in any order
search(points, query, limit) ==
    LET passing == {p \in points : PassesThreshold(query, p)}
        n == Limit(Cardinality(passing), limit)
        q == Embed(query)
    IN {hits \in [1..n -> passing] :
            /\ \A i, j \in 1..n : i # j => hits[i] # hits[j]
            /\ \A i, j \in 1..n : i < j => ~CloserThan(q, Embed(hits[j].text), Embed(hits[i].text))
            /\ \A p \in passing : (\A i \in 1..n : hits[i] # p)
                   => \A i \in 1..n : ~CloserThan(q, Embed(p.text), Embed(hits[i].text))}

\* the augmented prompt of prepare_contents
AugmentedPrompt(hits, prompt) ==
    IF Len(hits) > 0
    THEN <<"Given the following relevant information from our past conversation:\n--- BEGIN CONTEXT ---\n">>
            \o Join([i \in 1..Len(hits) |-> hits[i].text], <<"\n---\n">>)
            \o <<"\n--- END CONTEXT ---\n\nNow, please answer this question: ">>
            \o prompt
    ELSE prompt

\* _get_or_create_collection: get_collection raises for a collection that is
\* not there, or, when fails, for a reason of its own; whatever it raises is
\* caught, and recreate_collection then puts an empty collection under the name
get_or_create_collection(colls, name, fails) ==
    IF name \in DOMAIN colls /\ ~fails THEN colls ELSE (name :> {}) @@ colls

\* An append that puts the model's record before the user's.
AppendSwapped(items, prompt, response) ==
    items \o <<ModelTurn(response), UserTurn(prompt)>>

\* context.py lines 19-20 and 47-48: the user record, then the model record
AppendTurn(items, prompt, response) ==
    items \o <<UserTurn(prompt), ModelTurn(response)>>

\* update_state of each strategy; uuid is the value uuid4() gives, fails whether
\* get_collection raises for a collection that is there
update_state(st, prompt, response, data, colls, uuid, fails) ==
    LET same == [raised |-> "", data |-> data, collections |-> colls]
    IN  CASE st.kind = "simple" ->
                IF data.type # "list" THEN [same EXCEPT !.raised = "AttributeError"]
                ELSE [same EXCEPT !.data =
                                      ListData(AppendTurn(data.items, prompt, response))]
          [] st.kind = "rolling" ->
                IF ~HasKey(data, "history") THEN [same EXCEPT !.raised = KeyFault(data)]
                ELSE [same EXCEPT !.data = DictData([data.fields EXCEPT !.history =
                                      AppendTurn(@, prompt, response)])]
          [] OTHER ->
                IF ~HasKey(data, "collection_name")
                THEN [same EXCEPT !.raised = KeyFault(data)]
                ELSE LET name == data.fields.collection_name
                         made == get_or_create_collection(colls, name, fails)
                         point == [id |-> uuid, text |-> InteractionText(prompt, response)]
                     IN [same EXCEPT !.collections =
                                         [made EXCEPT ![name] = @ \cup {point}]]

\* ------------------------------------------------------------ the manager

\* the number of turn records a stored document holds
DataSize(doc) ==
    IF doc.state # "complete" THEN 0
    ELSE IF doc.data.type = "list" THEN Len(doc.data.items)
    ELSE IF "history" \in DOMAIN doc.data.fields THEN Len(doc.data.fields.history)
    ELSE 0

\* the number of turns the store holds: two turn records, or one vector record, each
StoreTurns ==
    SumOver(DOMAIN files, [id \in DOMAIN files |-> DataSize(files[id])]) \div 2
        + SumOver(DOMAIN collections,
                  [c \in DOMAIN collections |-> Cardinality(collections[c])])

\* A completed call, as its caller and the store saw it.
Call(op, id, prompt, response) ==
    [op |-> op, id |-> id, prompt |-> prompt, response |-> response,
     result |-> "", payload |-> << >>, hits |-> << >>,
     sumCalls |-> 0, sumInput |-> << >>, sumOutput |-> << >>, sumFailed |-> FALSE,
     deleted |-> FALSE, probeFailed |-> FALSE, raced |-> FALSE,
     old |-> Absent, new |-> Absent,
     preFiles |-> files, preKeys |-> api_keys, preColl |-> collections,
     preSum |-> sumLog]

\* The log of summarization calls of a context none was made for. owed is the
\* number of turns still to be committed before len(history) can have grown by
\* summary_threshold since the last call, owedOk the same for the last call that
\* returned; passed holds the turn records that the text handed to a call that
\* returned had a line for.
NoSummary == [owed |-> 0, owedOk |-> 0, passed |-> << >>]

\* the log once update_context has committed a turn
TurnLogged(log) ==
    [owed |-> IF log.owed > 0 THEN log.owed - 1 ELSE 0,
     owedOk |-> IF log.owedOk > 0 THEN log.owedOk - 1 ELSE 0,
     passed |-> log.passed]

\* text has the line f"{role}: {text}" of a turn record
PassedLine(text, record) ==
    Contains(text \o <<"\n">>,
             <<"\n">> \o record.role \o <<": ">> \o record.text \o <<"\n">>)

\* the log once _summarize has made its call with the text input, for a context
\* whose history was history: a turn is two records
CallLogged(st, log, ok, input, history) ==
    LET turns == (st.summary_threshold + 1) \div 2
    IN [owed |-> turns,
        owedOk |-> IF ok THEN turns ELSE log.owedOk,
        passed |-> IF ok
                   THEN log.passed \o SelectSeq(history, LAMBDA r : PassedLine(input, r))
                   ELSE log.passed]

\* the uuids some stored state, collection or vector record holds
UsedUuids(fs, colls) ==
    {fs[id].data.fields.collection_name :
        id \in {i \in DOMAIN fs : /\ fs[i].state = "complete"
                                  /\ HasKey(fs[i].data, "collection_name")}}
        \cup DOMAIN colls
        \cup UNION {{p.id : p \in colls[c]} : c \in DOMAIN colls}

\* A uuid4 that gives the same value every time.
UuidFixed(fs, colls) == 1

\* uuid.uuid4(): a value nothing holds yet (the least such number stands for it)
uuid4(fs, colls) ==
    CHOOSE u \in 1..(Cardinality(UsedUuids(fs, colls)) + 1) : u \notin UsedUuids(fs, colls)

\* GeminiManager.create_context
create_context(st, fs, id, uuid) ==
    create_new_context(fs, id, get_initial_state(st, uuid))

\* A prepare_contents that returns without saving.
PersistSkipped(fs, id, data) == fs

\* core.py line 68: the state prepare_history left is saved before the return
PersistPrepared(fs, id, data) == save_context(fs, id, data)

\* What prepare_contents raises or returns and the state it leaves, when nothing
\* was done yet.
Unprepared(keys, fs) ==
    [raised |-> "", payload |-> << >>, files |-> fs, api_keys |-> keys,
     keyCalls |-> << >>, hits |-> << >>,
     sumCalls |-> 0, sumInput |-> << >>, sumOutput |-> << >>]

\* core.py lines 40-69: prepare_contents from load_context on. reply is what the
\* summarization call gives if one is made, hits what the search gives if one is
\* made.
PrepareLoaded(st, keys, fs, colls, prompt, id, reply, hits) ==
    LET out == Unprepared(keys, fs)
        loaded == load_context(fs, id)
    IN  IF loaded.raised # "" THEN [out EXCEPT !.raised = loaded.raised]
        ELSE IF st.kind = "rag" THEN
            IF ~HasKey(loaded.data, "collection_name")
            THEN [out EXCEPT !.raised = KeyFault(loaded.data)]
            ELSE IF loaded.data.fields.collection_name \notin DOMAIN colls
            THEN [out EXCEPT !.raised = "CollectionNotFound"]
            ELSE [out EXCEPT !.hits = hits,
                             !.payload = <<UserTurn(AugmentedPrompt(hits, prompt))>>]
        ELSE
            LET next == _get_next_key(keys)
                rotated == IF st.kind = "rolling"
                           THEN [out EXCEPT !.api_keys = next.api_keys,
                                            !.keyCalls = <<[pool |-> keys, key |-> next.key]>>]
                           ELSE out
                prepared == prepare_history(st, loaded.data, reply)
                asked == [rotated EXCEPT !.sumCalls = prepared.sumCalls,
                                         !.sumInput = prepared.sumInput,
                                         !.sumOutput = prepared.sumOutput]
            IN  IF prepared.raised # "" THEN [asked EXCEPT !.raised = prepared.raised]
                ELSE [asked EXCEPT !.files = PersistPrepared(fs, id, prepared.data),
                                   !.payload = prepared.history \o <<UserTurn(prompt)>>]

\* A prepare_contents that takes its client before it looks for the context.
PrepareClientFirst(st, keys, fs, colls, prompt, id, reply, hits) ==
    LET out == PrepareLoaded(st, keys, fs, colls, prompt, id, reply, hits)
    IN IF ~context_exists(fs, id) /\ st.kind = "rolling"
       THEN [out EXCEPT !.api_keys = RotateLeft(keys)]
       ELSE out

\* GeminiManager.prepare_contents: the existence check, then the rest
prepare_contents(st, keys, fs, colls, prompt, id, reply, hits) ==
    IF ~context_exists(fs, id)
    THEN [Unprepared(keys, fs) EXCEPT !.raised = "FileNotFoundError"]
    ELSE PrepareLoaded(st, keys, fs, colls, prompt, id, reply, hits)

\* GeminiManager.update_context
update_context(st, fs, colls, prompt, response, id, uuid, fails) ==
    LET out == [raised |-> "", returned |-> "noop", files |-> fs,
                collections |-> colls]
        loaded == load_context(fs, id)
        updated == update_state(st, prompt, response, loaded.data, colls, uuid, fails)
    IN  IF ~context_exists(fs, id) THEN out
        ELSE IF loaded.raised # "" THEN [out EXCEPT !.raised = loaded.raised]
        ELSE IF updated.raised # "" THEN [out EXCEPT !.raised = updated.raised]
        ELSE [out EXCEPT !.returned = "updated",
                         !.files = save_context(fs, id, updated.data),
                         !.collections = updated.collections]

\* ---------------------------------------------------------------- actions

\* The locals of an update_context that is not running.
NoFrame ==
    [id |-> "", prompt |-> << >>, response |-> << >>, data |-> ListData(<< >>),
     old |-> Absent, deleted |-> FALSE, raced |-> FALSE, key |-> 0, used |-> << >>]

Pools == {[i \in 1..n |-> i] : n \in 1..MaxKeys}

Init ==
    /\ api_keys \in Pools
    /\ strategy \in Strategies
    /\ files \in {[id \in ids |-> Absent] : ids \in IdSets}
    /\ collections = << >>
    /\ committed = [id \in DOMAIN files |-> << >>]
    /\ sumLog = [id \in DOMAIN files |-> NoSummary]
    /\ last = Call("none", "", << >>, << >>)
    /\ keyWin = << >>
    /\ pc = "idle"
    /\ frame = NoFrame

\* manager.get_client(), and what it does to the manager and the store
GetClientCall ==
    LET next == _get_next_key(api_keys)
    IN  /\ api_keys' = next.api_keys
        /\ keyWin' = PushWin(keyWin, api_keys, [pool |-> api_keys, key |-> next.key])
        /\ last' = [Call("get_client", "", << >>, << >>) EXCEPT !.result = "ok"]
        /\ UNCHANGED <<strategy, files, collections, committed, sumLog>>

\* manager.get_client()
GetClient == GetClientCall /\ UNCHANGED <<pc, frame>>

\* manager.create_context(id)
CreateContext(id) ==
    LET out == create_context(strategy, files, id, uuid4(files, collections))
    IN  /\ files' = out.files
        /\ committed' = IF out.raised = "" THEN [committed EXCEPT ![id] = << >>]
                        ELSE committed
        /\ sumLog' = IF out.raised = "" THEN [sumLog EXCEPT ![id] = NoSummary]
                     ELSE sumLog
        /\ last' = [Call("create", id, << >>, << >>) EXCEPT
                        !.result = IF out.raised = "" THEN "ok" ELSE out.raised]
        /\ UNCHANGED <<api_keys, strategy, collections, keyWin, pc, frame>>

\* manager.delete_context(id)
DeleteContext(id) ==
    /\ files' = delete_context(files, id)
    /\ committed' = [committed EXCEPT ![id] = << >>]
    /\ sumLog' = [sumLog EXCEPT ![id] = NoSummary]
    /\ last' = [Call("delete", id, << >>, << >>) EXCEPT !.result = "ok"]
    /\ UNCHANGED <<api_keys, strategy, collections, keyWin, pc, frame>>

\* the replies the summarization call of prepare_contents(prompt, id) can get
PossibleReplies(id) ==
    LET loaded == load_context(files, id)
    IN IF loaded.raised = "" /\ NeedsSummary(strategy, loaded.data)
       THEN Replies ELSE {NoReply}

\* the lists the search of prepare_contents(prompt, id) can get
PossibleHits(prompt, id) ==
    LET loaded == load_context(files, id)
    IN IF /\ strategy.kind = "rag"
          /\ loaded.raised = ""
          /\ HasKey(loaded.data, "collection_name")
          /\ loaded.data.fields.collection_name \in DOMAIN collections
       THEN search(collections[loaded.data.fields.collection_name], prompt,
                   strategy.top_k)
       ELSE {<< >>}

\* manager.prepare_contents(prompt, id), and what it does to the manager and
\* the store
PrepareCall(prompt, id) ==
    \E reply \in PossibleReplies(id), hits \in PossibleHits(prompt, id) :
        LET out == prepare_contents(strategy, api_keys, files, collections,
                                    prompt, id, reply, hits)
        IN  /\ files' = out.files
            /\ api_keys' = out.api_keys
            /\ keyWin' = IF out.keyCalls = << >> THEN keyWin
                         ELSE PushWin(keyWin, api_keys, out.keyCalls[1])
            /\ last' = [Call("prepare", id, prompt, << >>) EXCEPT
                            !.result = IF out.raised = "" THEN "ok" ELSE out.raised,
                            !.payload = out.payload,
                            !.hits = out.hits,
                            !.sumCalls = out.sumCalls,
                            !.sumInput = out.sumInput,
                            !.sumOutput = out.sumOutput,
                            !.sumFailed = (out.sumCalls = 1 /\ ~reply.ok)]
            /\ sumLog' = IF out.sumCalls = 1
                         THEN [sumLog EXCEPT ![id] = CallLogged(strategy, @, reply.ok, out.sumInput,
                                                           files[id].data.fields.history)]
                         ELSE sumLog
            /\ UNCHANGED <<strategy, collections, committed>>

\* manager.prepare_contents(prompt, id)
PrepareContents(prompt, id) == PrepareCall(prompt, id) /\ UNCHANGED <<pc, frame>>

\* manager.update_context(prompt, response, id), and what it does to the manager
\* and the store; fails is whether the get_collection of update_state raises for
\* a collection that is there
UpdateCall(prompt, response, id, fails) ==
    LET out == update_context(strategy, files, collections, prompt, response, id,
                              uuid4(files, collections), fails)
    IN  /\ StoreTurns < MaxTurns
        /\ Len(committed[id]) < MaxTurns
        /\ files' = out.files
        /\ collections' = out.collections
        /\ committed' = IF out.raised = "" /\ out.returned = "updated"
                        THEN [committed EXCEPT ![id] = Append(@, <<prompt, response>>)]
                        ELSE committed
        /\ sumLog' = IF out.raised = "" /\ out.returned = "updated"
                     THEN [sumLog EXCEPT ![id] = TurnLogged(@)]
                     ELSE sumLog
        /\ last' = [Call("update", id, prompt, response) EXCEPT
                        !.result = IF out.raised = "" THEN out.returned ELSE out.raised,
                        !.probeFailed = fails]
        /\ UNCHANGED <<api_keys, strategy, keyWin>>

UpdateContextWith(prompt, response, id, fails) ==
    UpdateCall(prompt, response, id, fails) /\ UNCHANGED <<pc, frame>>

\* manager.update_context(prompt, response, id) with the in-memory client, whose
\* get_collection raises for a missing collection only
UpdateContext(prompt, response, id) == UpdateContextWith(prompt, response, id, FALSE)

Next ==
    \/ GetClient
    \/ \E id \in DOMAIN files : CreateContext(id)
    \/ \E id \in DOMAIN files : DeleteContext(id)
    \/ \E prompt \in Prompts, id \in DOMAIN files : PrepareContents(prompt, id)
    \/ \E prompt \in Prompts, response \in Responses, id \in DOMAIN files :
            UpdateContext(prompt, response, id)

Spec == Init /\ [][Next]_vars

\* ------------------------------------- update_context, one file access a step
\* The same update_context, with the accesses to contexts/<id>.json as separate
\* steps: between them another process that shares the directory can delete the
\* file, and the process that runs update_context can be killed.

\* core.py line 73: if not persistence.context_exists(context_id): return
UpdateBegin(prompt, response, id) ==
    /\ pc = "idle"
    /\ StoreTurns < MaxTurns
    /\ Len(committed[id]) < MaxTurns
    /\ IF context_exists(files, id)
       THEN /\ pc' = "load"
            /\ frame' = [NoFrame EXCEPT !.id = id, !.prompt = prompt,
                                        !.response = response]
            /\ UNCHANGED last
       ELSE /\ last' = [Call("update", id, prompt, response) EXCEPT !.result = "noop"]
            /\ UNCHANGED <<pc, frame>>
    /\ UNCHANGED <<api_keys, strategy, files, collections, committed, keyWin, sumLog>>

\* core.py lines 74-75: load_context, then update_state on what it loaded
UpdateLoad ==
    /\ pc = "load"
    /\ LET loaded == load_context(files, frame.id)
           updated == update_state(strategy, frame.prompt, frame.response,
                                   loaded.data, collections, uuid4(files, collections),
                                   FALSE)
           raised == IF loaded.raised # "" THEN loaded.raised ELSE updated.raised
       IN IF raised # ""
          THEN /\ last' = [Call("update", frame.id, frame.prompt, frame.response)
                               EXCEPT !.result = raised, !.deleted = frame.deleted]
               /\ pc' = "idle"
               /\ frame' = NoFrame
               /\ UNCHANGED collections
          ELSE /\ pc' = "save"
               /\ frame' = [frame EXCEPT !.data = updated.data]
               /\ collections' = updated.collections
               /\ UNCHANGED last
    /\ UNCHANGED <<api_keys, strategy, files, committed, keyWin, sumLog>>

\* persistence.py line 36: open(path, 'w') makes the file, or cuts it to nothing
UpdateOpen ==
    /\ pc = "save"
    /\ files' = [files EXCEPT ![frame.id] = Truncated]
    /\ frame' = [frame EXCEPT !.old = files[frame.id]]
    /\ pc' = "write"
    /\ UNCHANGED <<api_keys, strategy, collections, committed, last, keyWin, sumLog>>

\* persistence.py line 37: json.dump writes the document, and the call returns
UpdateWrite ==
    /\ pc = "write"
    /\ files' = [files EXCEPT ![frame.id] = JsonDump(frame.data)]
    /\ last' = [Call("update", frame.id, frame.prompt, frame.response)
                    EXCEPT !.result = "updated", !.deleted = frame.deleted]
    /\ committed' = [committed EXCEPT ![frame.id] =
                         Append(@, <<frame.prompt, frame.response>>)]
    /\ sumLog' = [sumLog EXCEPT ![frame.id] = TurnLogged(@)]
    /\ pc' = "idle"
    /\ frame' = NoFrame
    /\ UNCHANGED <<api_keys, strategy, collections, keyWin>>

\* delete_context(id) by another process, at any step of update_context
ConcurrentDelete(id) ==
    /\ files' = delete_context(files, id)
    /\ frame' = IF pc # "idle" /\ id = frame.id /\ context_exists(files, id)
                THEN [frame EXCEPT !.deleted = TRUE] ELSE frame
    /\ committed' = [committed EXCEPT ![id] = << >>]
    /\ sumLog' = [sumLog EXCEPT ![id] = NoSummary]
    /\ last' = [Call("delete", id, << >>, << >>) EXCEPT !.result = "ok"]
    /\ UNCHANGED <<api_keys, strategy, collections, keyWin, pc>>

\* The process is killed while update_context runs and is started again: the
\* files stay as they are, the manager and the in-memory Qdrant client are new.
Crash ==
    /\ pc # "idle"
    /\ last' = [Call("crash", frame.id, frame.prompt, frame.response) EXCEPT
                    !.result = pc,
                    !.old = frame.old,
                    !.new = JsonDump(frame.data)]
    /\ pc' = "idle"
    /\ frame' = NoFrame
    /\ api_keys' = [i \in 1..Len(api_keys) |-> i]
    /\ keyWin' = << >>
    /\ collections' = << >>
    /\ UNCHANGED <<strategy, files, committed, sumLog>>

\* the calls that run from start to end while no update_context is under way
SeqCreateContext(id) == pc = "idle" /\ CreateContext(id)
SeqPrepareContents(prompt, id) == pc = "idle" /\ PrepareContents(prompt, id)

NextSteps ==
    \/ \E id \in DOMAIN files : SeqCreateContext(id)
    \/ \E prompt \in Prompts, id \in DOMAIN files : SeqPrepareContents(prompt, id)
    \/ \E id \in DOMAIN files : ConcurrentDelete(id)
    \/ \E prompt \in Prompts, response \in Responses, id \in DOMAIN files :
            UpdateBegin(prompt, response, id)
    \/ UpdateLoad
    \/ UpdateOpen
    \/ UpdateWrite
    \/ Crash

SpecSteps == Init /\ [][NextSteps]_vars

\* ------------------------------------------------- the process started again
\* The calls of the manager, and between them the end of the process and its
\* start: GeminiManager and its strategy are constructed anew, with the key pool
\* read from the environment again and a new QdrantClient(":memory:"); the
\* files of contexts/ stay.

Restart ==
    /\ api_keys' = [i \in 1..Len(api_keys) |-> i]
    /\ keyWin' = << >>
    /\ collections' = << >>
    /\ last' = [Call("restart", "", << >>, << >>) EXCEPT !.result = "ok"]
    /\ UNCHANGED <<strategy, files, committed, sumLog, pc, frame>>

NextRestart ==
    \/ Next
    \/ Restart

SpecRestart == Init /\ [][NextRestart]_vars

\* ------------------------------------------------------ a probe that fails
\* The calls of the manager, with a get_collection that can raise although the
\* collection is there (_get_or_create_collection catches every Exception).

UpdateProbeFails(prompt, response, id) ==
    /\ strategy.kind = "rag"
    /\ context_exists(files, id)
    /\ files[id].data.fields.collection_name \in DOMAIN collections
    /\ UpdateContextWith(prompt, response, id, TRUE)

NextProbe ==
    \/ Next
    \/ \E prompt \in Prompts, response \in Responses, id \in DOMAIN files :
            UpdateProbeFails(prompt, response, id)

SpecProbe == Init /\ [][NextProbe]_vars

\* ------------------------------------- create_context, one file access a step
\* create_context with its existence check and its save as separate steps:
\* between them another process that shares the directory can create the same
\* context.

\* core.py line 26 and persistence.py lines 21-22: the initial state is drawn,
\* then create_new_context raises if the context is there
CreateBegin(id) ==
    /\ pc = "idle"
    /\ IF context_exists(files, id)
       THEN /\ last' = [Call("create", id, << >>, << >>) EXCEPT
                            !.result = "FileExistsError"]
            /\ UNCHANGED <<pc, frame>>
       ELSE /\ pc' = "create_save"
            /\ frame' = [NoFrame EXCEPT
                   !.id = id,
                   !.data = get_initial_state(strategy, uuid4(files, collections))]
            /\ UNCHANGED last
    /\ UNCHANGED <<api_keys, strategy, files, collections, committed, keyWin, sumLog>>

\* persistence.py line 23: save_context(context_id, initial_data)
CreateSave ==
    /\ pc = "create_save"
    /\ files' = save_context(files, frame.id, frame.data)
    /\ committed' = [committed EXCEPT ![frame.id] = << >>]
    /\ sumLog' = [sumLog EXCEPT ![frame.id] = NoSummary]
    /\ last' = [Call("create", frame.id, << >>, << >>) EXCEPT
                    !.result = "ok", !.raced = frame.raced, !.old = frame.old]
    /\ pc' = "idle"
    /\ frame' = NoFrame
    /\ UNCHANGED <<api_keys, strategy, collections, keyWin>>

\* create_context(id) by another process, from its start to its end; its uuid4
\* gives a value that the state drawn by the stepwise create does not hold
ConcurrentCreate(id) ==
    LET held == IF pc = "create_save" THEN save_context(files, frame.id, frame.data)
                ELSE files
        out == create_context(strategy, files, id, uuid4(held, collections))
    IN  /\ files' = out.files
        /\ frame' = IF pc = "create_save" /\ id = frame.id /\ out.raised = ""
                    THEN [frame EXCEPT !.raced = TRUE, !.old = out.files[id]]
                    ELSE frame
        /\ committed' = IF out.raised = "" THEN [committed EXCEPT ![id] = << >>]
                        ELSE committed
        /\ sumLog' = IF out.raised = "" THEN [sumLog EXCEPT ![id] = NoSummary]
                     ELSE sumLog
        /\ last' = [Call("create", id, << >>, << >>) EXCEPT
                        !.result = IF out.raised = "" THEN "ok" ELSE out.raised]
        /\ UNCHANGED <<api_keys, strategy, collections, keyWin, pc>>

SeqUpdateContext(prompt, response, id) ==
    pc = "idle" /\ UpdateContext(prompt, response, id)

NextCreate ==
    \/ \E id \in DOMAIN files : CreateBegin(id)
    \/ CreateSave
    \/ \E id \in DOMAIN files : ConcurrentCreate(id)
    \/ \E id \in DOMAIN files : ConcurrentDelete(id)
    \/ \E prompt \in Prompts, id \in DOMAIN files : SeqPrepareContents(prompt, id)
    \/ \E prompt \in Prompts, response \in Responses, id \in DOMAIN files :
            SeqUpdateContext(prompt, response, id)

SpecCreate == Init /\ [][NextCreate]_vars

\* ------------------------------------------------------------ the chat loop
\* chat_with_bot of chatbot.py on a context that select_context gave it: for
\* every prompt that is not empty, get_client, prepare_contents, the call of
\* the model with that client, update_context; an exception at any of them is
\* caught, and the loop goes on with the next prompt.

\* The locals of the loop between two turns; used holds the keys of the model
\* calls of the last len(api_keys) turns that followed one another unbroken.
BetweenTurns(used) == [NoFrame EXCEPT !.used = used]

\* chatbot.py line 110: client = manager.get_client()
ChatGetClient(prompt, id) ==
    /\ pc = "idle"
    /\ prompt # << >>
    /\ context_exists(files, id)
    /\ StoreTurns < MaxTurns
    /\ Len(committed[id]) < MaxTurns
    /\ GetClientCall
    /\ pc' = "chat_prepare"
    /\ frame' = [frame EXCEPT !.id = id, !.prompt = prompt, !.key = Head(api_keys)]

\* chatbot.py line 113: contents = manager.prepare_contents(prompt, context_id)
ChatPrepare ==
    /\ pc = "chat_prepare"
    /\ PrepareCall(frame.prompt, frame.id)
    /\ pc' = IF last'.result = "ok" THEN "chat_call" ELSE "idle"
    /\ frame' = IF last'.result = "ok" THEN frame ELSE BetweenTurns(<< >>)

\* chatbot.py lines 118-128: client.generate_content with the client of line
\* 110, which raises or gives the response text
ChatCall(reply) ==
    /\ pc = "chat_call"
    /\ pc' = IF reply.ok THEN "chat_commit" ELSE "idle"
    /\ frame' = IF reply.ok
                THEN [frame EXCEPT !.response = reply.text,
                                   !.used = PushWin(@, api_keys, frame.key)]
                ELSE BetweenTurns(<< >>)
    /\ UNCHANGED <<api_keys, strategy, files, collections, committed, last, keyWin,
                   sumLog>>

\* chatbot.py line 133: manager.update_context(prompt, response_text, context_id)
ChatCommit ==
    /\ pc = "chat_commit"
    /\ UpdateCall(frame.prompt, frame.response, frame.id, FALSE)
    /\ pc' = "idle"
    /\ frame' = BetweenTurns(frame.used)

\* the replies of the model to the call of the loop
PrimaryReplies == {NoReply} \cup {[ok |-> TRUE, text |-> r] : r \in Responses}

NextChat ==
    \/ \E id \in DOMAIN files : SeqCreateContext(id)
    \/ \E prompt \in Prompts, id \in DOMAIN files : ChatGetClient(prompt, id)
    \/ ChatPrepare
    \/ \E reply \in PrimaryReplies : ChatCall(reply)
    \/ ChatCommit

SpecChat == Init /\ [][NextChat]_vars

\* ------------------------------------------------------------- two contexts
\* The same calls, made by a caller that uses two context ids.

PairIds == {"c1", "c2"}

\* one strategy of each kind
PairStrategies ==
    {SimpleContextStrategy,
     RollingSummaryStrategy(MaxThreshold - 1),
     RetrievalAugmentedStrategy(MaxTopK - 1)}

InitPair ==
    /\ api_keys = <<1>>
    /\ strategy \in PairStrategies
    /\ files = [id \in PairIds |-> Absent]
    /\ collections = << >>
    /\ committed = [id \in DOMAIN files |-> << >>]
    /\ sumLog = [id \in DOMAIN files |-> NoSummary]
    /\ last = Call("none", "", << >>, << >>)
    /\ keyWin = << >>
    /\ pc = "idle"
    /\ frame = NoFrame

\* the prompts of the caller of the two contexts
PairPrompts == {<< >>, <<"p">>}

NextPair ==
    \/ \E id \in DOMAIN files : CreateContext(id)
    \/ \E id \in DOMAIN files : DeleteContext(id)
    \/ \E prompt \in PairPrompts, id \in DOMAIN files : PrepareContents(prompt, id)
    \/ \E prompt \in PairPrompts, response \in Responses, id \in DOMAIN files :
            UpdateContext(prompt, response, id)

SpecPair == InitPair /\ [][NextPair]_vars

\* ------------------------------------------------------------------ claims

\* the history and the summary a rolling-summary document holds
HistoryOf(doc) == doc.data.fields.history
SummaryOf(doc) == doc.data.fields.summary

\* text ends with tail
EndsWith(text, tail) ==
    /\ Len(text) >= Len(tail)
    /\ \A i \in 1..Len(tail) : text[Len(text) - Len(tail) + i] = tail[i]

\* the turn records of a log of committed turns, in commit order
RecordsOf(log) ==
    [i \in 1..(2 * Len(log)) |->
        IF i % 2 = 1 THEN UserTurn(log[(i + 1) \div 2][1])
        ELSE ModelTurn(log[i \div 2][2])]

\* prepare_contents has just returned for a rolling-summary context whose stored
\* history had reached the threshold
ReturnedOverThreshold ==
    /\ strategy.kind = "rolling"
    /\ last.op = "prepare"
    /\ last.result = "ok"
    /\ Len(HistoryOf(last.preFiles[last.id])) >= strategy.summary_threshold

CalledUnderThreshold ==
    /\ strategy.kind = "rolling"
    /\ last.op = "prepare"
    /\ context_exists(last.preFiles, last.id)
    /\ Len(HistoryOf(last.preFiles[last.id])) < strategy.summary_threshold

\* C2: a prepare_contents on a rolling-summary context whose history is under the
\* threshold makes no summarization call, leaves the stored summary and history
\* as they were, and returns a payload that ends with the stored history records
\* in order and then the new user turn.
C2_NoSummaryUnderThreshold ==
    CalledUnderThreshold =>
        /\ last.result = "ok"
        /\ last.sumCalls = 0
        /\ files = last.preFiles
        /\ EndsWith(last.payload,
                    HistoryOf(last.preFiles[last.id]) \o <<UserTurn(last.prompt)>>)

C2_Witness ==
    /\ CalledUnderThreshold
    /\ Len(HistoryOf(last.preFiles[last.id])) = 2
    /\ last.payload = HistoryOf(files[last.id]) \o <<UserTurn(last.prompt)>>

\* C3: with the simple strategy, a prepare_contents on a context that N turns were
\* committed to since it was created returns the 2N records of those turns, in
\* commit order and with their texts as committed, and then the new user turn.
C3_PlainHistoryInOrder ==
    (/\ strategy.kind = "simple"
     /\ last.op = "prepare"
     /\ context_exists(last.preFiles, last.id)) =>
        /\ last.result = "ok"
        /\ Len(last.payload) = 2 * Len(committed[last.id]) + 1
        /\ last.payload = RecordsOf(committed[last.id]) \o <<UserTurn(last.prompt)>>

C3_Witness ==
    /\ strategy.kind = "simple"
    /\ last.op = "prepare"
    /\ last.result = "ok"
    /\ Len(committed[last.id]) = 2
    /\ committed[last.id][1][1] = << >>
    /\ committed[last.id][2][1] # << >>
    /\ Len(last.payload) = 5

\* C4: once len(api_keys) calls of _get_next_key were made in a row, the keys they
\* returned are the pool as it was before the first of them, front to back, and
\* the pool is in that order again.
C4_FullCycleRestoresPool ==
    Len(keyWin) = Len(api_keys) =>
        /\ [i \in 1..Len(keyWin) |-> keyWin[i].key] = keyWin[1].pool
        /\ api_keys = keyWin[1].pool

C4_Witness ==
    /\ Len(keyWin) = Len(api_keys)
    /\ Len(api_keys) >= 2
    /\ keyWin[1].pool # <<1, 2>>

\* C5: create_context on a stored id raises FileExistsError and leaves the store
\* as it was, whatever was committed to the context.
C5_DuplicateCreateRefused ==
    (last.op = "create" /\ context_exists(last.preFiles, last.id)) =>
        /\ last.result = "FileExistsError"
        /\ files = last.preFiles
        /\ collections = last.preColl

C5_Witness ==
    /\ last.op = "create"
    /\ last.result = "FileExistsError"
    /\ Len(committed[last.id]) > 0
    /\ files[last.id].state = "complete"

\* C6: prepare_contents on an id that is not stored raises FileNotFoundError under
\* every strategy, and leaves the store, the collections and the key pool as
\* they were: the context is not created and no key is taken.
C6_PrepareUnknownRaises ==
    (last.op = "prepare" /\ ~context_exists(last.preFiles, last.id)) =>
        /\ last.result = "FileNotFoundError"
        /\ ~context_exists(files, last.id)
        /\ files = last.preFiles
        /\ collections = last.preColl
        /\ api_keys = last.preKeys

C6_Witness ==
    /\ last.op = "prepare"
    /\ last.result = "FileNotFoundError"
    /\ strategy.kind = "rolling"
    /\ Len(api_keys) = 2
    /\ api_keys = <<2, 1>>

\* C7 as claimed: an update_context on a context that was deleted, also when the
\* delete came between its existence check and its load or save, raises nothing
\* and leaves the context deleted.
C7_Claimed ==
    (last.op = "update" /\ last.deleted) =>
        /\ last.result \in {"noop", "updated"}
        /\ ~context_exists(files, last.id)

\* C8: when the summarization call of prepare_contents fails, prepare_contents
\* raises, the stored state is what it was before the call, and the stored history
\* still reaches the threshold.
C8_FailedSummaryLeavesState ==
    (last.op = "prepare" /\ last.sumFailed) =>
        /\ last.result = "UpstreamFailure"
        /\ files = last.preFiles
        /\ Len(HistoryOf(files[last.id])) >= strategy.summary_threshold

C8_Witness ==
    /\ last.op = "prepare"
    /\ last.sumFailed
    /\ Len(HistoryOf(files[last.id])) = 4
    /\ SummaryOf(files[last.id]) = <<"s">>

\* C9 as claimed: after a save that was cut short by the death of the process,
\* the stored document is the complete previous one or the complete new one.
C9_Claimed ==
    (last.op = "crash" /\ last.result = "write") =>
        files[last.id] \in {last.old, last.new}

\* cosine(Embed(query), Embed(text)) >= 0.6
Relevant(query, text) ==
    CosineAtLeast(Embed(query), Embed(text), ScoreThresholdTenths)

\* the points of a collection strictly closer to the query than text is
CloserPoints(points, query, text) ==
    {o \in points : CloserThan(Embed(query), Embed(o.text), Embed(text))}

\* the places of text where the text of some point starts
TextStarts(text, points) ==
    {i \in 0..(Len(text) - 1) :
        \E p \in points :
            /\ i + Len(p.text) <= Len(text)
            /\ \A j \in 1..Len(p.text) : text[i + j] = p.text[j]}

\* prepare_contents has just returned under the retrieval strategy
ReturnedRetrieval ==
    /\ strategy.kind = "rag"
    /\ last.op = "prepare"
    /\ last.result = "ok"

\* the collection prepare_contents has just searched
Searched == last.preColl[last.preFiles[last.id].data.fields.collection_name]

\* C10: the payload prepare_contents returns under the retrieval strategy holds
\* the text of a record of the context's collection only if the record's
\* similarity to the prompt is at least 0.6 and fewer than top_k records are
\* closer to the prompt; it holds at most top_k record texts.
C10_OnlyRelevantNearest ==
    ReturnedRetrieval =>
        /\ Len(last.payload) = 1
        /\ \A p \in Searched :
              Contains(last.payload[1].text, p.text) =>
                  /\ Relevant(last.prompt, p.text)
                  /\ Cardinality(CloserPoints(Searched, last.prompt, p.text))
                        < strategy.top_k
        /\ Cardinality(TextStarts(last.payload[1].text, Searched)) <= strategy.top_k

\* a record over the score threshold is left out because top_k closer ones are in
C10_TopKCut ==
    /\ ReturnedRetrieval
    /\ \E p, o \in Searched :
          /\ Contains(last.payload[1].text, p.text)
          /\ Relevant(last.prompt, o.text)
          /\ ~Contains(last.payload[1].text, o.text)

C10_Witness ==
    /\ ReturnedRetrieval
    /\ \E p, o \in Searched :
          /\ Contains(last.payload[1].text, p.text)
          /\ ~Relevant(last.prompt, o.text)
          /\ ~Contains(last.payload[1].text, o.text)

\* the records of the collection a stored retrieval document named before the
\* last call: none when the collection was not there
RecordsBefore(id) ==
    LET name == last.preFiles[id].data.fields.collection_name
    IN IF name \in DOMAIN last.preColl THEN last.preColl[name] ELSE {}

\* prepare_contents was called under the retrieval strategy for a stored context
\* none of whose records reaches the score threshold for the prompt
CalledWithNothingRelevant ==
    /\ strategy.kind = "rag"
    /\ last.op = "prepare"
    /\ context_exists(last.preFiles, last.id)
    /\ \A p \in RecordsBefore(last.id) : ~Relevant(last.prompt, p.text)

\* C11 as claimed: under the retrieval strategy a prepare_contents for a context
\* none of whose records reaches the score threshold, a context no turn was
\* committed to included, returns one user turn whose text is the prompt.
C11_Claimed ==
    CalledWithNothingRelevant =>
        /\ last.result = "ok"
        /\ last.payload = <<UserTurn(last.prompt)>>

\* the turns committed to a stored context are there for prepare_contents: in the
\* stored document, or as records of the context's collection
TurnsKept(id) ==
    IF strategy.kind = "rag"
    THEN LET name == files[id].data.fields.collection_name
         IN \A i \in 1..Len(committed[id]) :
                /\ name \in DOMAIN collections
                /\ \E p \in collections[name] :
                       p.text = InteractionText(committed[id][i][1], committed[id][i][2])
    ELSE files[id] = last.preFiles[id]

\* C12 as claimed: when the process is started again, every stored context is
\* still stored, and every turn committed to it is still there for
\* prepare_contents: in its document, or as a record of its collection.
C12_Claimed ==
    last.op = "restart" =>
        /\ list_contexts(files) = list_contexts(last.preFiles)
        /\ \A id \in list_contexts(files) : TurnsKept(id)

\* C13: delete_context raises nothing; on an id that is not stored it leaves the
\* stored ids and every document as they were, and on a stored id it takes that
\* id, and no other, out of list_contexts and leaves the other documents alone.
C13_DeleteRemovesOnlyThat ==
    last.op = "delete" =>
        /\ last.result = "ok"
        /\ list_contexts(files) = list_contexts(last.preFiles) \ {last.id}
        /\ \A other \in DOMAIN files \ {last.id} : files[other] = last.preFiles[other]
        /\ ~context_exists(last.preFiles, last.id) => files = last.preFiles

\* a delete of an id that is not stored, beside a context that holds a turn
C13_Witness ==
    /\ last.op = "delete"
    /\ ~context_exists(last.preFiles, last.id)
    /\ \E other \in list_contexts(files) : Len(committed[other]) > 0

\* a delete of a stored id, beside a context that holds a turn
C13_WitnessStored ==
    /\ last.op = "delete"
    /\ context_exists(last.preFiles, last.id)
    /\ list_contexts(files) # {}
    /\ \E other \in list_contexts(files) : Len(committed[other]) > 0

\* C14 as claimed: once delete_context has deleted a stored retrieval context, the
\* collection its document named is not there any more.
C14_Claimed ==
    (/\ strategy.kind = "rag"
     /\ last.op = "delete"
     /\ context_exists(last.preFiles, last.id)) =>
        last.preFiles[last.id].data.fields.collection_name \notin DOMAIN collections

\* update_context has just committed a turn to a rolling-summary context: no
\* summarization call was made, the summary is as it was, and the history has
\* grown by the user record and then the model record
CommitOnlyAppends ==
    (last.op = "update" /\ last.result = "updated") =>
        /\ last.sumCalls = 0
        /\ sumLog[last.id] = TurnLogged(last.preSum[last.id])
        /\ SummaryOf(files[last.id]) = SummaryOf(last.preFiles[last.id])
        /\ HistoryOf(files[last.id]) =
               HistoryOf(last.preFiles[last.id])
                   \o <<UserTurn(last.prompt), ModelTurn(last.response)>>

\* C15 as claimed: with a rolling-summary strategy of threshold >= 1,
\* update_context makes no summarization call and only appends the user record
\* and the model record to the history; a summarization call is made by
\* prepare_contents only, and between two calls in a row for a context at least
\* ceil(threshold / 2) turns were committed to it.
C15_Claimed ==
    (strategy.kind = "rolling" /\ strategy.summary_threshold >= 1) =>
        /\ CommitOnlyAppends
        /\ last.sumCalls > 0 => last.op = "prepare"
        /\ last.sumCalls = 1 => last.preSum[last.id].owed = 0

\* C15 as amended: the same, with the turns counted between two summarization
\* calls in a row that returned; a call that failed is made again by the next
\* prepare_contents, with no turn in between.
C15_SummarizesOncePerCrossing ==
    (strategy.kind = "rolling" /\ strategy.summary_threshold >= 1) =>
        /\ CommitOnlyAppends
        /\ last.sumCalls > 0 => last.op = "prepare"
        /\ last.sumCalls = 1 => last.preSum[last.id].owedOk = 0

\* a second summarization call that returned, one committed turn after the first
C15_Witness ==
    /\ strategy.kind = "rolling"
    /\ strategy.summary_threshold >= 1
    /\ last.op = "prepare"
    /\ last.result = "ok"
    /\ last.sumCalls = 1
    /\ last.preSum[last.id].owedOk = 0
    /\ SummaryOf(last.preFiles[last.id]) # << >>
    /\ Len(committed[last.id]) = 2

\* prepare_contents has just returned under the rolling-summary strategy
ReturnedRolling ==
    /\ strategy.kind = "rolling"
    /\ last.op = "prepare"
    /\ last.result = "ok"

\* payload starts with a user turn that states summary and a model turn that
\* acknowledges it
StartsWithSummary(payload, summary) ==
    /\ Len(payload) >= 2
    /\ payload[1].role = <<"user">>
    /\ payload[1].text = <<"This is a summary of our conversation so far: ">> \o summary
    /\ payload[2] = ModelTurn(<<"Understood. Let's continue.">>)

C17_PrepareReadOnly ==
    (/\ strategy.kind \in {"simple", "rag"}
     /\ last.op = "prepare"
     /\ last.result = "ok") =>
        /\ files = last.preFiles
        /\ collections = last.preColl

\* a retrieval prepare_contents that found a record
C17_Witness ==
    /\ strategy.kind = "rag"
    /\ last.op = "prepare"
    /\ last.result = "ok"
    /\ Len(last.hits) > 0
    /\ RecordsBefore(last.id) # {}

\* a simple prepare_contents on a context that holds two turns
C17_WitnessPlain ==
    /\ strategy.kind = "simple"
    /\ last.op = "prepare"
    /\ last.result = "ok"
    /\ Len(files[last.id].data.items) = 4

\* update_context has just committed a turn under the retrieval strategy
CommittedRetrieval ==
    /\ strategy.kind = "rag"
    /\ last.op = "update"
    /\ last.result = "updated"

\* C18 as claimed: every update_context that commits a turn under the retrieval
\* strategy leaves in the context's collection every record that was there, and
\* adds one record, under an id nothing held, whose text is the user's and the
\* model's text put together; also when get_collection fails for a collection
\* that is there.
C18_Claimed ==
    CommittedRetrieval =>
        LET before == RecordsBefore(last.id)
            after == collections[files[last.id].data.fields.collection_name]
        IN /\ before \subseteq after
           /\ Cardinality(after \ before) = 1
           /\ \A p \in after \ before :
                 /\ p.text = InteractionText(last.prompt, last.response)
                 /\ p.id \notin UsedUuids(last.preFiles, last.preColl)

\* C19 as claimed: a prepare_contents that makes no summarization call, under any
\* strategy, leaves the key pool in the order it had.
C19_Claimed ==
    (last.op = "prepare" /\ last.sumCalls = 0) => api_keys = last.preKeys

\* the records of the collection a stored retrieval document names now
RecordsNow(id) ==
    LET name == files[id].data.fields.collection_name
    IN IF name \in DOMAIN collections THEN collections[name] ELSE {}

\* payload holds the committed turn t: as a user record followed by a model
\* record, or as the text of a vector record inside a turn's text
HoldsTurn(payload, t) ==
    \/ \E i \in 1..(Len(payload) - 1) :
          payload[i] = UserTurn(t[1]) /\ payload[i + 1] = ModelTurn(t[2])
    \/ \E i \in 1..Len(payload) :
          Contains(payload[i].text, InteractionText(t[1], t[2]))

\* the turns committed to context a and not to context b
OnlyIn(a, b) ==
    {committed[a][i] : i \in 1..Len(committed[a])}
        \ {committed[b][i] : i \in 1..Len(committed[b])}

\* C20: a call for one context id leaves the document of every other context
\* and the records of its collection as they were; a payload prepared for a
\* context holds no turn that was committed to another context only; and two
\* stored retrieval contexts never name the same collection.
C20_ContextsIsolated ==
    /\ \A b \in DOMAIN files :
          (last.op \in {"create", "prepare", "update", "delete"} /\ last.id # b) =>
              /\ files[b] = last.preFiles[b]
              /\ (strategy.kind = "rag" /\ context_exists(files, b)) =>
                     RecordsNow(b) = RecordsBefore(b)
    /\ (last.op = "prepare" /\ last.result = "ok") =>
          \A a \in DOMAIN files \ {last.id} :
              \A t \in OnlyIn(a, last.id) : ~HoldsTurn(last.payload, t)
    /\ strategy.kind = "rag" =>
          \A a, b \in list_contexts(files) :
              a # b => files[a].data.fields.collection_name
                           # files[b].data.fields.collection_name

\* a payload prepared for a retrieval context that holds a turn of its own, while
\* the other context holds a turn that was committed to it only
C20_Witness ==
    /\ strategy.kind = "rag"
    /\ last.op = "prepare"
    /\ last.result = "ok"
    /\ Len(last.hits) > 0
    /\ \E a \in list_contexts(files) \ {last.id} :
          /\ OnlyIn(a, last.id) # {}
          /\ RecordsNow(a) # {}

\* C21 as claimed: when another create_context of the same id ran to its end
\* and succeeded between the existence check and the save of a create_context,
\* that create_context raises FileExistsError and the stored state is the
\* initial state the other one saved.
C21_Claimed ==
    (last.op = "create" /\ last.raced) =>
        /\ last.result = "FileExistsError"
        /\ files[last.id] = last.old

\* the records a sequence holds
Range(seq) == {seq[i] : i \in 1..Len(seq)}

\* C22: under the rolling-summary strategy every turn record committed to a
\* stored context is in the stored history, or had its line in the text handed
\* to a summarization call that returned; and the text such a call returns is
\* the summary that is stored when prepare_contents returns.
C22_NoTurnDropped ==
    strategy.kind = "rolling" =>
        /\ \A id \in list_contexts(files) :
              Range(RecordsOf(committed[id]))
                  \subseteq Range(HistoryOf(files[id])) \cup Range(sumLog[id].passed)
        /\ (last.op = "prepare" /\ last.sumCalls = 1 /\ ~last.sumFailed) =>
              SummaryOf(files[last.id]) = last.sumOutput

\* a context with one turn that went into a summary and a later turn in the history
C22_Witness ==
    /\ strategy.kind = "rolling"
    /\ \E id \in list_contexts(files) :
          /\ Len(committed[id]) = 2
          /\ Len(sumLog[id].passed) = 2
          /\ Len(HistoryOf(files[id])) = 2
          /\ committed[id][1] # committed[id][2]
          /\ SummaryOf(files[id]) = <<"s">>

\* ------------------------------------------------------------------- C23
\* The history a rolling-summary context holds in the chat loop.
ChatHistoryBounded ==
    \A id \in list_contexts(files) :
        /\ Len(HistoryOf(files[id])) % 2 = 0
        /\ Len(HistoryOf(files[id])) <= strategy.summary_threshold + 1

\* C23 as claimed: with a RollingSummaryStrategy whose summary_threshold is at
\* least 1, in the chat loop, the stored history always has even length, never
\* has more than summary_threshold + 1 records, and is shorter than
\* summary_threshold right after every prepare_contents on a context that exists.
C23_Claimed ==
    (strategy.kind = "rolling" /\ strategy.summary_threshold >= 1) =>
        /\ ChatHistoryBounded
        /\ (last.op = "prepare" /\ context_exists(last.preFiles, last.id)) =>
              Len(HistoryOf(files[last.id])) < strategy.summary_threshold

\* C23, amended: with a RollingSummaryStrategy whose summary_threshold is at
\* least 1, in the chat loop, the stored history always has even length, never
\* has more than summary_threshold + 1 records, and is shorter than
\* summary_threshold right after every prepare_contents that returned; after one
\* whose summarization call raised it is as long as before.
C23_ChatHistoryShape ==
    (strategy.kind = "rolling" /\ strategy.summary_threshold >= 1) =>
        /\ ChatHistoryBounded
        /\ (last.op = "prepare" /\ last.result = "ok") =>
              Len(HistoryOf(files[last.id])) < strategy.summary_threshold
        /\ (last.op = "prepare" /\ last.sumFailed) =>
              /\ files = last.preFiles
              /\ Len(HistoryOf(files[last.id])) >= strategy.summary_threshold

\* A prepare_contents of the loop that summarized a history of summary_threshold
\* records and returned.
C23_Witness ==
    /\ strategy.kind = "rolling"
    /\ strategy.summary_threshold = 2
    /\ pc = "chat_call"
    /\ last.op = "prepare"
    /\ last.result = "ok"
    /\ last.sumCalls = 1
    /\ Len(HistoryOf(last.preFiles[last.id])) = 2
    /\ HistoryOf(files[last.id]) = << >>

\* A history of summary_threshold + 1 records, after the second commit of the
\* loop.
C23_WitnessFull ==
    /\ strategy.kind = "rolling"
    /\ strategy.summary_threshold = 3
    /\ pc = "idle"
    /\ last.op = "update"
    /\ Len(HistoryOf(files[last.id])) = 4

\* ------------------------------------------------------------------- C24
\* C24 as claimed: in the chat loop, whatever the strategy and the number of
\* keys, the model calls of len(api_keys) turns that follow one another use
\* every key of the pool exactly once.
C24_Claimed ==
    Len(frame.used) = Len(api_keys) =>
        \A k \in Range(api_keys) :
            Cardinality({i \in DOMAIN frame.used : frame.used[i] = k}) = 1

\* What holds: the strategies that make no model call of their own in
\* prepare_contents use every key once.
C24_HoldsWithoutSummaryClient ==
    strategy.kind # "rolling" => C24_Claimed

\* ------------------------------------------------- another strategy chosen
\* main() of chatbot.py run again on the same contexts/ directory:
\* select_strategy builds any of the three strategies, GeminiManager is
\* constructed with it, and select_context offers every context the directory
\* lists, whichever strategy created it.

\* The strategies select_strategy is asked for here: one of each kind.
MenuStrategies ==
    {SimpleContextStrategy, RollingSummaryStrategy(MaxThreshold - 1),
     RetrievalAugmentedStrategy(1)}

InitMenu ==
    /\ Init
    /\ api_keys = <<1>>
    /\ strategy \in MenuStrategies

\* chatbot.py lines 143-146: the process ends, and main() builds the strategy st
\* and a manager on it
StartWith(st) ==
    /\ pc = "idle"
    /\ strategy' = st
    /\ api_keys' = [i \in 1..Len(api_keys) |-> i]
    /\ keyWin' = << >>
    /\ collections' = << >>
    /\ last' = [Call("restart", "", << >>, << >>) EXCEPT !.result = "ok"]
    /\ UNCHANGED <<files, committed, sumLog, pc, frame>>

NextMenu ==
    \/ \E id \in DOMAIN files : CreateContext(id)
    \/ \E prompt \in PairPrompts, id \in DOMAIN files : PrepareContents(prompt, id)
    \/ \E prompt \in PairPrompts, response \in Responses, id \in DOMAIN files :
           UpdateContext(prompt, response, id)
    \/ \E st \in MenuStrategies : StartWith(st)

SpecMenu == InitMenu /\ [][NextMenu]_vars

\* ------------------------------------------------------------------- C25
\* whether a stored document has the shape the strategy st gives its states
ShapeOf(st, doc) ==
    /\ doc.state = "complete"
    /\ CASE st.kind = "simple" -> doc.data.type = "list"
         [] st.kind = "rolling" -> HasKey(doc.data, "summary") /\ HasKey(doc.data, "history")
         [] OTHER -> HasKey(doc.data, "collection_name")

\* C25 as claimed: every stored context has the shape of the strategy of the
\* manager that works on it, and no prepare_contents and no update_context on a
\* context that exists fails for being handed a state of another shape.
C25_Claimed ==
    /\ \A id \in list_contexts(files) : ShapeOf(strategy, files[id])
    /\ (last.op \in {"prepare", "update"} /\ context_exists(last.preFiles, last.id)) =>
          last.result \notin {"TypeError", "KeyError", "AttributeError"}

\* What holds: a manager gives every context it creates the shape of its own
\* strategy.
C25_CreatedInShape ==
    (last.op = "create" /\ last.result = "ok") => ShapeOf(strategy, files[last.id])

====
